---- MODULE Spec2Model ----
(***************************************************************************)
(* Customer Churn Intelligence (src/app/app.py): the Streamlit script that *)
(* loads three cached artifacts, encodes the customer profile into the     *)
(* classifier's input frame, and on "Analyze Churn Risk" shows the churn   *)
(* probability, the rule-based reasons, the top-3 drivers and the severity *)
(* banner.                                                                 *)
(*                                                                         *)
(* Numbers: monthly/total charges are floats in the program; the model     *)
(* draws them from integers, on which the comparisons with 50 and 70 are   *)
(* the program's comparisons.  The scaler and the classifier are opaque    *)
(* artifacts: the scaler is an affine map that accepts or rejects the      *)
(* three-column batch, the classifier accepts or rejects the frame and     *)
(* returns any probability.                                                *)
(***************************************************************************)
EXTENDS Integers, Sequences, FiniteSets, TLC

VARIABLES
    tenure,             \* st.slider "Tenure (months)"          (line 120)
    monthly_charges,    \* st.number_input "Monthly Charges"    (line 121)
    total_charges,      \* st.number_input "Total Charges"      (line 122)
    contract,           \* st.selectbox "Contract Type"         (line 124)
    internet_service,   \* st.selectbox "Internet Service"      (line 125)
    paperless_billing,  \* st.selectbox "Paperless Billing"     (line 126)
    storage,            \* the three .pkl files under models/
    cache,              \* st.cache_resource entry of load_artifacts()
    loads,              \* times the body of load_artifacts ran in this process
    first_seen,         \* artifacts the first script run of this process used
    input_data,         \* the one-row DataFrame built at lines 133-152
    error,              \* how the latest script run ended
    churn_prob,         \* the metric card (lines 162-173)
    reasons,            \* the WHY panel (lines 176-178, 217-226)
    top_drivers,        \* the driver tiles (lines 182-203)
    banner,             \* the severity indicator (lines 206-214)
    prev                \* history: inputs and reasons of an earlier request

vars == <<tenure, monthly_charges, total_charges, contract, internet_service,
          paperless_billing, storage, cache, loads, first_seen,
          input_data, error, churn_prob, reasons, top_drivers, banner, prev>>

profile == <<tenure, monthly_charges, total_charges, contract,
             internet_service, paperless_billing>>
artifacts == <<storage, cache, loads, first_seen>>
output == <<churn_prob, reasons, top_drivers, banner>>

-----------------------------------------------------------------------------
(* Bounds of the model.                                                    *)

NegArgs == 2            \* arguments of the reason generator start at -NegArgs
MaxTenureArg == 25      \* ... and tenure arguments end here
MaxChargesArg == 72     \* ... and monthly-charges arguments end here
MaxLen == 3             \* longest arbitrary feature-name list
MaxLoads == 3           \* cap of the load counter

ContractTypes == {"Month-to-month", "One year", "Two year"}
InternetServices == {"DSL", "Fiber optic", "No"}
PaperlessOptions == {"Yes", "No"}

\* what a variable holds when the thing it stands for is absent
NoCache == [none |-> "cache"]
NoArtifacts == [none |-> "artifacts"]
NoFrame == [none |-> "frame"]
NoPrev == [none |-> "prev"]
NoProb == << >>
NoBanner == "NoBanner"

-----------------------------------------------------------------------------
(* REASON GENERATOR (lines 29-55).  An entry is the tuple                  *)
(* <<title, severity, explanation>>; each rule yields the entries it       *)
(* appends.                                                                *)

TenureRuleInclusive(t) ==
    IF t <= 12
      THEN << <<"Low tenure", "High", "Customer has a short relationship with the company.">> >>
      ELSE IF t <= 24
        THEN << <<"Moderate tenure", "Medium", "Customer loyalty is not fully established.">> >>
        ELSE << >>

\* if tenure < 12 / elif tenure < 24
TenureRule(t) ==
    IF t < 12
      THEN << <<"Low tenure", "High", "Customer has a short relationship with the company.">> >>
      ELSE IF t < 24
        THEN << <<"Moderate tenure", "Medium", "Customer loyalty is not fully established.">> >>
        ELSE << >>

ContractRuleNoElse(c) ==
    IF c = "Month-to-month"
      THEN << <<"Flexible contract", "High", "Month-to-month contracts are associated with higher churn risk.">> >>
      ELSE << >>

\* if contract == "Month-to-month" / else
ContractRule(c) ==
    IF c = "Month-to-month"
      THEN << <<"Flexible contract", "High", "Month-to-month contracts are associated with higher churn risk.">> >>
      ELSE << <<"Long-term contract", "Low", "Long-term contracts reduce churn risk.">> >>

\* if monthly_charges > 70 / elif monthly_charges > 50
ChargesRule(m) ==
    IF m > 70
      THEN << <<"High monthly charges", "High", "Customer may be sensitive to pricing.">> >>
      ELSE IF m > 50
        THEN << <<"Moderate monthly charges", "Medium", "Pricing level can influence churn.">> >>
        ELSE << >>

\* if internet_service == "Fiber optic"
InternetRule(i) ==
    IF i = "Fiber optic"
      THEN << <<"Fiber optic service", "Medium", "Higher service expectations may increase churn.">> >>
      ELSE << >>

PaperlessRuleHigh(p) ==
    IF p = "Yes"
      THEN << <<"Paperless billing", "High", "Digital billing users are often more flexible to switch.">> >>
      ELSE << >>

\* if paperless_billing == "Yes"
PaperlessRule(p) ==
    IF p = "Yes"
      THEN << <<"Paperless billing", "Low", "Digital billing users are often more flexible to switch.">> >>
      ELSE << >>

\* reasons = [] ; the five appends in program order ; return reasons
generate_reasons_with_severity(t, m, c, i, p) ==
    TenureRule(t) \o ContractRule(c) \o ChargesRule(m) \o InternetRule(i)
        \o PaperlessRule(p)

-----------------------------------------------------------------------------
(* Top 3 drivers and severity indicator (lines 180-214).                   *)

\* top_drivers = reasons[:3]
TopDrivers(rs) == SubSeq(rs, 1, IF Len(rs) < 3 THEN Len(rs) ELSE 3)

\* severities = [s for _, s, _ in reasons]
Severities(rs) == [k \in 1..Len(rs) |-> rs[k][2]]

Contains(seq, x) == \E k \in 1..Len(seq) : seq[k] = x

SeverityBannerMediumFirst(rs) ==
    IF Contains(Severities(rs), "Medium") THEN "Medium"
    ELSE IF Contains(Severities(rs), "High") THEN "High"
    ELSE "Low"

\* if "High" in severities / elif "Medium" in severities / else
SeverityBanner(rs) ==
    IF Contains(Severities(rs), "High") THEN "High"
    ELSE IF Contains(Severities(rs), "Medium") THEN "Medium"
    ELSE "Low"

-----------------------------------------------------------------------------
(* BUILD INPUT DATA (lines 133-152).  A one-row DataFrame is the record    *)
(* [columns, row]: the column labels in order and the row's values.        *)

\* pd.DataFrame(0, index=[0], columns=feature_columns)
ZeroFrame(fc) == [columns |-> fc, row |-> [k \in 1..Len(fc) |-> 0]]

\* name in input_data.columns
HasColumn(df, name) == Contains(df.columns, name)

\* input_data[name] = v : sets the column, creating it at the end when the
\* frame has no column of that name (DataFrame.__setitem__).
SetItem(df, name, v) ==
    IF HasColumn(df, name)
      THEN [df EXCEPT !.row = [k \in 1..Len(df.row) |->
                                 IF df.columns[k] = name THEN v ELSE df.row[k]]]
      ELSE [columns |-> Append(df.columns, name), row |-> Append(df.row, v)]

\* input_data[name] for a column the frame has
GetItem(df, name) == df.row[CHOOSE k \in 1..Len(df.columns) : df.columns[k] = name]

\* lines 133-137
AssignNumerics(fc, t, m, tc) ==
    SetItem(SetItem(SetItem(ZeroFrame(fc), "tenure", t), "MonthlyCharges", m),
            "TotalCharges", tc)

\* scaler.transform raises unless the batch has the columns it was fitted on
ScalerAccepts(scaler) == scaler.n_features_in = 3

\* scaler.transform(batch) on an accepted batch
Transform(scaler, batch) == [k \in 1..3 |-> batch[k] - scaler.mean[k]]

\* lines 140-142, for a scaler that accepts the batch
ApplyScaling(df, scaler) ==
    LET x == Transform(scaler, <<GetItem(df, "tenure"),
                                 GetItem(df, "MonthlyCharges"),
                                 GetItem(df, "TotalCharges")>>)
    IN  SetItem(SetItem(SetItem(df, "tenure", x[1]), "MonthlyCharges", x[2]),
                "TotalCharges", x[3])

EncodeContractUnguarded(df, c) ==
    IF c # "Month-to-month" THEN SetItem(df, "Contract_" \o c, 1) ELSE df

EncodeContractNoBaseline(df, c) ==
    IF HasColumn(df, "Contract_" \o c)
      THEN SetItem(df, "Contract_" \o c, 1)
      ELSE df

\* lines 145-146
EncodeContract(df, c) ==
    IF c # "Month-to-month" /\ HasColumn(df, "Contract_" \o c)
      THEN SetItem(df, "Contract_" \o c, 1)
      ELSE df

\* lines 148-149
EncodeInternetService(df, i) ==
    IF i # "DSL" /\ HasColumn(df, "InternetService_" \o i)
      THEN SetItem(df, "InternetService_" \o i, 1)
      ELSE df

\* lines 151-152
EncodePaperlessBilling(df, p) ==
    IF p = "Yes" /\ HasColumn(df, "PaperlessBilling")
      THEN SetItem(df, "PaperlessBilling", 1)
      ELSE df

\* lines 133-152: the frame, or the exception of scaler.transform
BuildInputData(fc, scaler, t, m, tc, c, i, p) ==
    IF ~ScalerAccepts(scaler)
      THEN [raised |-> TRUE, frame |-> NoFrame]
      ELSE [raised |-> FALSE,
            frame |-> EncodePaperlessBilling(
                        EncodeInternetService(
                          EncodeContract(
                            ApplyScaling(AssignNumerics(fc, t, m, tc), scaler),
                            c),
                          i),
                        p)]

\* model.predict_proba raises unless the frame has the columns it was fitted on
ModelAccepts(model, df) == Len(df.columns) = model.n_features_in

-----------------------------------------------------------------------------
(* Artifacts.  A bundle is what the three joblib.load calls return:        *)
(* [feature_columns, scaler, model].                                       *)

TrainingColumns ==
    <<"tenure", "MonthlyCharges", "TotalCharges", "Contract_One year",
      "Contract_Two year", "InternetService_Fiber optic", "InternetService_No",
      "PaperlessBilling">>

FittedScaler == [n_features_in |-> 3, mean |-> <<32, 65, 2280>>]
MisfittedScaler == [n_features_in |-> 2, mean |-> <<32, 65, 2280>>]

\* the artifact sets the application is run on: the trained set, a set
\* whose feature-name list is empty, and a set whose scaler was fitted on
\* other columns
AppBundles ==
    { [feature_columns |-> TrainingColumns, scaler |-> FittedScaler,
       model |-> [n_features_in |-> 8]],
      [feature_columns |-> << >>, scaler |-> FittedScaler,
       model |-> [n_features_in |-> 8]],
      [feature_columns |-> TrainingColumns, scaler |-> MisfittedScaler,
       model |-> [n_features_in |-> 8]] }

\* values of predict_proba(...)[0][1], in percent
Probs == {5, 95}

\* widget values the application is driven with (slider 0..72, free numbers)
AppTenures == {12, 24}
AppMonthlyCharges == {40, 70}
AppTotalCharges == {0, 800}

-----------------------------------------------------------------------------
(* LOAD MODEL ARTIFACTS (lines 17-24).                                     *)

load_artifacts_uncached ==
    /\ cache' = storage
    /\ loads' = IF loads < MaxLoads THEN loads + 1 ELSE loads

\* @st.cache_resource: the body runs on a cache miss only, and the cached
\* objects are returned on every later call.
load_artifacts ==
    IF cache = NoCache
      THEN cache' = storage /\ loads' = loads + 1
      ELSE UNCHANGED <<cache, loads>>

-----------------------------------------------------------------------------
(* OUTPUT SECTION (lines 157-228).                                         *)

\* the right column of a run that shows no analysis
NothingShown ==
    /\ churn_prob' = NoProb
    /\ reasons' = << >>
    /\ top_drivers' = << >>
    /\ banner' = NoBanner

\* lines 176-214: reasons, driver tiles, severity indicator
ShowReasons(t, m, c, i, p) ==
    /\ reasons' = generate_reasons_with_severity(t, m, c, i, p)
    /\ top_drivers' = TopDrivers(reasons')
    /\ banner' = SeverityBanner(reasons')

\* History: an earlier request is kept for comparison with later ones.  Any
\* request with the watched selections may be the one kept.
Watched(i, p) == i = "Fiber optic" /\ p = "Yes"

Remember(t, m, tc, c, i, p) ==
    IF Watched(i, p)
      THEN prev' \in {prev, [inputs |-> <<t, m, c, i, p>>, total |-> tc,
                            reasons |-> reasons']}
      ELSE UNCHANGED prev

AnalyzeChurnRiskTotalCharges(df, t, m, tc, c, i, p) ==
    IF ~ModelAccepts(cache'.model, df)
      THEN error' = "predict" /\ NothingShown /\ UNCHANGED prev
      ELSE /\ error' = "none"
           /\ \E pr \in Probs : churn_prob' = <<pr>>
           /\ ShowReasons(t, tc, c, i, p)
           /\ Remember(t, m, tc, c, i, p)

\* the body of `if st.button(...)` (lines 162-226)
AnalyzeChurnRisk(df, t, m, tc, c, i, p) ==
    IF ~ModelAccepts(cache'.model, df)
      THEN error' = "predict" /\ NothingShown /\ UNCHANGED prev
      ELSE /\ error' = "none"
           /\ \E pr \in Probs : churn_prob' = <<pr>>
           /\ ShowReasons(t, m, c, i, p)
           /\ Remember(t, m, tc, c, i, p)

\* One execution of the script, top to bottom, with the widgets at the
\* given values and the button pressed or not.
ScriptRun(t, m, tc, c, i, p, button) ==
    /\ tenure' = t
    /\ monthly_charges' = m
    /\ total_charges' = tc
    /\ contract' = c
    /\ internet_service' = i
    /\ paperless_billing' = p
    /\ load_artifacts
    /\ first_seen' = IF first_seen = NoArtifacts THEN cache' ELSE first_seen
    /\ UNCHANGED storage
    /\ LET enc == BuildInputData(cache'.feature_columns, cache'.scaler,
                                 t, m, tc, c, i, p)
       IN  IF enc.raised
             THEN /\ input_data' = NoFrame
                  /\ error' = "encode"
                  /\ NothingShown
                  /\ UNCHANGED prev
             ELSE /\ input_data' = enc.frame
                  /\ IF button
                       THEN AnalyzeChurnRisk(enc.frame, t, m, tc, c, i, p)
                       ELSE error' = "none" /\ NothingShown /\ UNCHANGED prev

-----------------------------------------------------------------------------
(* The application: a process serving one browser session.                 *)

Init ==
    /\ tenure = 12
    /\ monthly_charges = 70
    /\ total_charges = 800
    /\ contract = "Month-to-month"
    /\ internet_service = "DSL"
    /\ paperless_billing = "Yes"
    /\ storage \in AppBundles
    /\ cache = NoCache
    /\ loads = 0
    /\ first_seen = NoArtifacts
    /\ input_data = NoFrame
    /\ error = "not_run"
    /\ churn_prob = NoProb
    /\ reasons = << >>
    /\ top_drivers = << >>
    /\ banner = NoBanner
    /\ prev = NoPrev

\* the page is opened or reloaded
OpenPage ==
    ScriptRun(tenure, monthly_charges, total_charges, contract,
              internet_service, paperless_billing, FALSE)

MoveTenure ==
    /\ error # "not_run"
    /\ \E t \in AppTenures \ {tenure} :
         ScriptRun(t, monthly_charges, total_charges, contract,
                   internet_service, paperless_billing, FALSE)

EnterMonthlyCharges ==
    /\ error # "not_run"
    /\ \E m \in AppMonthlyCharges \ {monthly_charges} :
         ScriptRun(tenure, m, total_charges, contract,
                   internet_service, paperless_billing, FALSE)

EnterTotalCharges ==
    /\ error # "not_run"
    /\ \E tc \in AppTotalCharges \ {total_charges} :
         ScriptRun(tenure, monthly_charges, tc, contract,
                   internet_service, paperless_billing, FALSE)

SelectContract ==
    /\ error # "not_run"
    /\ \E c \in ContractTypes \ {contract} :
         ScriptRun(tenure, monthly_charges, total_charges, c,
                   internet_service, paperless_billing, FALSE)

SelectInternetService ==
    /\ error # "not_run"
    /\ \E i \in InternetServices \ {internet_service} :
         ScriptRun(tenure, monthly_charges, total_charges, contract,
                   i, paperless_billing, FALSE)

SelectPaperlessBilling ==
    /\ error # "not_run"
    /\ \E p \in PaperlessOptions \ {paperless_billing} :
         ScriptRun(tenure, monthly_charges, total_charges, contract,
                   internet_service, p, FALSE)

\* the button is pressed: the script runs with st.button(...) = True
ClickAnalyze ==
    /\ error # "not_run"
    /\ ScriptRun(tenure, monthly_charges, total_charges, contract,
                 internet_service, paperless_billing, TRUE)

\* the files under models/ are replaced while the process runs
ReplaceArtifactFiles ==
    /\ storage' \in AppBundles \ {storage}
    /\ UNCHANGED <<profile, cache, loads, first_seen, input_data, error,
                   output, prev>>

\* the process ends and a new one starts: nothing is cached, a new session
RestartProcess ==
    /\ error # "not_run"
    /\ tenure' = 12
    /\ monthly_charges' = 70
    /\ total_charges' = 800
    /\ contract' = "Month-to-month"
    /\ internet_service' = "DSL"
    /\ paperless_billing' = "Yes"
    /\ cache' = NoCache
    /\ loads' = 0
    /\ first_seen' = NoArtifacts
    /\ input_data' = NoFrame
    /\ error' = "not_run"
    /\ NothingShown
    /\ UNCHANGED <<storage, prev>>

Next ==
    \/ OpenPage
    \/ MoveTenure
    \/ EnterMonthlyCharges
    \/ EnterTotalCharges
    \/ SelectContract
    \/ SelectInternetService
    \/ SelectPaperlessBilling
    \/ ClickAnalyze
    \/ ReplaceArtifactFiles
    \/ RestartProcess

Spec == Init /\ [][Next]_vars

-----------------------------------------------------------------------------
(* The reason generator on its own: any integer arguments, negative ones   *)
(* included, and one call of lines 176-214 on them.                        *)

InitReasons ==
    /\ tenure \in -NegArgs..MaxTenureArg
    /\ monthly_charges \in -NegArgs..MaxChargesArg
    /\ total_charges = 800
    /\ contract \in ContractTypes
    /\ internet_service \in InternetServices
    /\ paperless_billing \in PaperlessOptions
    /\ storage \in {b \in AppBundles : b.feature_columns = TrainingColumns
                                        /\ b.scaler = FittedScaler}
    /\ cache = storage
    /\ loads = 1
    /\ first_seen = storage
    /\ input_data = NoFrame
    /\ error = "not_run"
    /\ churn_prob = NoProb
    /\ reasons = << >>
    /\ top_drivers = << >>
    /\ banner = NoBanner
    /\ prev = NoPrev

Explain ==
    /\ error = "not_run"
    /\ error' = "none"
    /\ ShowReasons(tenure, monthly_charges, contract, internet_service,
                   paperless_billing)
    /\ UNCHANGED <<profile, artifacts, input_data, churn_prob, prev>>

NextReasons == Explain

SpecReasons == InitReasons /\ [][NextReasons]_vars

-----------------------------------------------------------------------------
(* The encoder on its own: lines 133-152 on any feature-name list.         *)

ColumnNames ==
    {"tenure", "MonthlyCharges", "TotalCharges", "Contract_Month-to-month",
     "Contract_One year", "Contract_Two year", "InternetService_DSL",
     "InternetService_Fiber optic", "InternetService_No", "PaperlessBilling"}

\* every list of at most MaxLen distinct names
ShortLists ==
    {fc \in UNION {[1..n -> ColumnNames] : n \in 0..MaxLen} :
        \A a, b \in 1..Len(fc) : a # b => fc[a] # fc[b]}

RECURSIVE Keep(_, _, _)
Keep(seq, S, k) ==
    IF k > Len(seq) THEN << >>
    ELSE (IF k \in S THEN <<seq[k]>> ELSE << >>) \o Keep(seq, S, k + 1)

\* the training list with any of its names dropped
DriftedLists == {Keep(TrainingColumns, S, 1) : S \in SUBSET (1..Len(TrainingColumns))}

FeatureLists == ShortLists \cup DriftedLists

InitEncode ==
    /\ tenure \in {0, 72}
    /\ monthly_charges = 70
    /\ total_charges = 800
    /\ contract \in ContractTypes
    /\ internet_service \in InternetServices
    /\ paperless_billing \in PaperlessOptions
    /\ storage \in [feature_columns : FeatureLists,
                    scaler : {FittedScaler, MisfittedScaler},
                    model : {[n_features_in |-> 8]}]
    /\ cache = storage
    /\ loads = 1
    /\ first_seen = storage
    /\ input_data = NoFrame
    /\ error = "not_run"
    /\ churn_prob = NoProb
    /\ reasons = << >>
    /\ top_drivers = << >>
    /\ banner = NoBanner
    /\ prev = NoPrev

Encode ==
    /\ error = "not_run"
    /\ LET enc == BuildInputData(cache.feature_columns, cache.scaler, tenure,
                                 monthly_charges, total_charges, contract,
                                 internet_service, paperless_billing)
       IN  /\ input_data' = enc.frame
           /\ error' = IF enc.raised THEN "encode" ELSE "none"
    /\ UNCHANGED <<profile, artifacts, output, prev>>

NextEncode == Encode

SpecEncode == InitEncode /\ [][NextEncode]_vars

-----------------------------------------------------------------------------
(* Properties.                                                             *)

\* the reason generator has returned and its result is on display
Explained == error = "none" /\ banner # NoBanner

\* a prediction request has been answered
Answered == error = "none" /\ churn_prob # NoProb

\* input_data has been built
Encoded == input_data # NoFrame

Inputs == <<tenure, monthly_charges, contract, internet_service,
            paperless_billing>>

Titles(rs) == {rs[k][1] : k \in 1..Len(rs)}

\* C1 as stated: every call of generate_reasons_with_severity returns at
\* least 2 and at most 5 entries.
C1_TwoToFive == Explained => Len(reasons) >= 2 /\ Len(reasons) <= 5

\* C1 amended: every call of generate_reasons_with_severity returns at least
\* 1 and at most 5 entries, and the contract rule's entry is always among them.
C1_OneToFive ==
    Explained =>
        /\ Len(reasons) >= 1
        /\ Len(reasons) <= 5
        /\ Titles(reasons) \cap {"Flexible contract", "Long-term contract"} # {}

C1_Witness == Explained /\ Len(reasons) = 1

\* The rule table of the reason generator as the claim gives it: title,
\* severity, position of the rule, and whether the rule emits it now.
RuleTable ==
    { [title |-> "Low tenure", severity |-> "High", rank |-> 1,
       fires |-> tenure < 12],
      [title |-> "Moderate tenure", severity |-> "Medium", rank |-> 1,
       fires |-> tenure >= 12 /\ tenure < 24],
      [title |-> "Flexible contract", severity |-> "High", rank |-> 2,
       fires |-> contract = "Month-to-month"],
      [title |-> "Long-term contract", severity |-> "Low", rank |-> 2,
       fires |-> contract # "Month-to-month"],
      [title |-> "High monthly charges", severity |-> "High", rank |-> 3,
       fires |-> monthly_charges > 70],
      [title |-> "Moderate monthly charges", severity |-> "Medium", rank |-> 3,
       fires |-> monthly_charges > 50 /\ monthly_charges <= 70],
      [title |-> "Fiber optic service", severity |-> "Medium", rank |-> 4,
       fires |-> internet_service = "Fiber optic"],
      [title |-> "Paperless billing", severity |-> "Low", rank |-> 5,
       fires |-> paperless_billing = "Yes"] }

RowOf(entry) == CHOOSE r \in RuleTable : r.title = entry[1]

\* C3: the returned list holds exactly the entries whose rule fires, each
\* once and with the rule's severity, in rule order (tenure, contract,
\* monthly charges, internet service, paperless billing), so at most one
\* entry per rule; this for negative and zero arguments too.
C3_RuleTable ==
    Explained =>
        /\ \A r \in RuleTable :
             Cardinality({k \in 1..Len(reasons) : reasons[k][1] = r.title})
                 = IF r.fires THEN 1 ELSE 0
        /\ \A k \in 1..Len(reasons) :
             /\ reasons[k][1] \in {r.title : r \in RuleTable}
             /\ reasons[k][2] = RowOf(reasons[k]).severity
        /\ \A k, l \in 1..Len(reasons) :
             k < l => RowOf(reasons[k]).rank < RowOf(reasons[l]).rank

C3_Witness ==
    /\ Explained
    /\ tenure = 12
    /\ monthly_charges = 70
    /\ Len(reasons) = 5
    /\ reasons[1][1] = "Moderate tenure"
    /\ reasons[3][1] = "Moderate monthly charges"

\* C4: for a displayed reason list the banner is High when some entry of the
\* whole list is High, else Medium when some entry is Medium, else Low; the
\* top drivers are the first three entries (all of them when fewer).
C4_BannerAndTopDrivers ==
    Explained =>
        /\ banner = IF \E k \in 1..Len(reasons) : reasons[k][2] = "High"
                      THEN "High"
                      ELSE IF \E k \in 1..Len(reasons) : reasons[k][2] = "Medium"
                             THEN "Medium"
                             ELSE "Low"
        /\ Len(top_drivers) = IF Len(reasons) < 3 THEN Len(reasons) ELSE 3
        /\ \A k \in 1..Len(top_drivers) : top_drivers[k] = reasons[k]

C4_Witness ==
    /\ Explained
    /\ Len(reasons) = 5
    /\ banner = "High"
    /\ reasons[1][2] = "Medium"
    /\ reasons[2][2] = "Low"
    /\ reasons[3][2] = "High"
    /\ Len(top_drivers) = 3

C7_LoadedOnce ==
    /\ loads <= 1
    /\ cache # NoCache => cache = first_seen
    /\ error # "not_run" => cache # NoCache

C7_Witness == Answered /\ loads = 1 /\ storage # cache

\* C10: the banner of the whole reason list is the banner the first three
\* entries alone would give.
C10_BannerFromTopThree ==
    Explained =>
        banner = IF \E k \in 1..Len(top_drivers) : top_drivers[k][2] = "High"
                   THEN "High"
                   ELSE IF \E k \in 1..Len(top_drivers) : top_drivers[k][2] = "Medium"
                          THEN "Medium"
                          ELSE "Low"

C10_Witness ==
    /\ Explained
    /\ Len(reasons) = 5
    /\ banner = "Medium"

\* C8 as stated: a script run fails in encoding exactly when the
\* feature-name list is empty or the scaler rejects the batch, and a run
\* that failed in encoding shows neither probability nor reasons.
C8_EncodingFailsIffMalformed ==
    error # "not_run" =>
        /\ error = "encode" <=>
             (cache.feature_columns = << >> \/ ~ScalerAccepts(cache.scaler))
        /\ error = "encode" => churn_prob = NoProb /\ reasons = << >>

\* C2 as stated: the encoded frame has exactly the names of the feature-name
\* list, in its order.
C2_FrameHasListColumns == Encoded => input_data.columns = cache.feature_columns

\* the frame the encoder builds from the current artifacts and numbers for
\* the given selections
FrameFor(c, i, p) ==
    BuildInputData(cache.feature_columns, cache.scaler, tenure,
                   monthly_charges, total_charges, c, i, p).frame

ScaledFrame ==
    ApplyScaling(AssignNumerics(cache.feature_columns, tenure, monthly_charges,
                                total_charges), cache.scaler)

ContractAbsent ==
    contract # "Month-to-month"
        /\ ~Contains(cache.feature_columns, "Contract_" \o contract)
InternetAbsent ==
    internet_service # "DSL"
        /\ ~Contains(cache.feature_columns, "InternetService_" \o internet_service)
PaperlessAbsent ==
    paperless_billing = "Yes" /\ ~Contains(cache.feature_columns, "PaperlessBilling")

\* C5: a selection whose indicator name is absent from the feature-name list
\* raises nothing and adds no column, and the frame is the one built for the
\* baseline selection (Month-to-month, DSL, No) with the other fields equal.
C5_AbsentIndicatorIsBaseline ==
    /\ (error = "encode") => ~ScalerAccepts(cache.scaler)
    /\ Encoded =>
        /\ ContractAbsent =>
             /\ input_data = FrameFor("Month-to-month", internet_service,
                                      paperless_billing)
             /\ input_data.columns = ScaledFrame.columns
        /\ InternetAbsent =>
             /\ input_data = FrameFor(contract, "DSL", paperless_billing)
             /\ input_data.columns = ScaledFrame.columns
        /\ PaperlessAbsent =>
             /\ input_data = FrameFor(contract, internet_service, "No")
             /\ input_data.columns = ScaledFrame.columns
        /\ (ContractAbsent /\ InternetAbsent /\ PaperlessAbsent) =>
             input_data = ScaledFrame

C5_Witness ==
    /\ Encoded
    /\ contract = "One year"
    /\ ContractAbsent
    /\ internet_service = "No"
    /\ ~InternetAbsent
    /\ Contains(cache.feature_columns, "Contract_Two year")

\* C9: after encoding, a column "Contract_<X>" holds 1 when X is the selected
\* contract and X is not Month-to-month, and 0 otherwise; a column
\* "InternetService_<Y>" holds 1 when Y is the selected service and Y is not
\* DSL, and 0 otherwise; so the indicators are 0/1 values the scaler never
\* touched, at most one per group is 1, and the baselines are all zeros.
C9_OneHotWithBaseline ==
    Encoded =>
        \A k \in 1..Len(input_data.columns) :
            /\ \A x \in ContractTypes :
                 input_data.columns[k] = "Contract_" \o x =>
                     input_data.row[k] =
                         IF x = contract /\ x # "Month-to-month" THEN 1 ELSE 0
            /\ \A y \in InternetServices :
                 input_data.columns[k] = "InternetService_" \o y =>
                     input_data.row[k] =
                         IF y = internet_service /\ y # "DSL" THEN 1 ELSE 0

C9_Witness ==
    /\ Encoded
    /\ contract = "Two year"
    /\ internet_service = "DSL"
    /\ \E k \in 1..Len(input_data.columns) :
         input_data.columns[k] = "Contract_Two year" /\ input_data.row[k] = 1
    /\ \E k \in 1..Len(input_data.columns) :
         input_data.columns[k] = "Contract_One year" /\ input_data.row[k] = 0
    /\ \E k \in 1..Len(input_data.columns) :
         input_data.columns[k] = "InternetService_DSL" /\ input_data.row[k] = 0

====
